---- MODULE Spec2Model ----
(***************************************************************************)
(* State-machine model of the blog backend's service / authorization      *)
(* layer (src/app): the relational store with its unique constraints, the *)
(* request handlers of the user, category and post services broken into   *)
(* their database round trips, and the token / guard functions.           *)
(***************************************************************************)
EXTENDS Integers, Sequences, FiniteSets, TLC

VARIABLES
    users,            \* rows of table users
    categories,       \* rows of table categories
    posts,            \* rows of table posts
    post_categories,  \* rows of the association table: <<post_id, category_id>>
    nextId,           \* next fresh primary key (uuid4 values are never reused)
    req,              \* per request task: the handler it runs and where it is
    svc,              \* the service whose handlers the request tasks run
    now,              \* wall clock, in seconds
    out               \* the last call of a guard / credential function and its result

vars == <<users, categories, posts, post_categories, nextId, req, svc, now, out>>

(***************************************************************************)
(* Bounds and value domains                                                *)
(***************************************************************************)
MaxIds == 4

Procs     == {"p1", "p2"}
Usernames == {"alice", "bob"}
Emails    == {"a@x", "b@x"}
Passwords == {"pw1", "pw2"}
Salts     == {"s"}
Names     == {"News", "Tech"}
Slugs     == {"one", "two"}
Titles    == {"t"}
Excerpts  == {"e"}
Contents  == {"c"}

Ids == 1 .. MaxIds

Null == "NULL"

\* NULL in a column that holds primary keys
NullId == 0

(***************************************************************************)
(* Failure kinds.  The handlers raise HTTPException with a status code;    *)
(* the 400 raised for a uniqueness collision is the Conflict kind, the 400 *)
(* raised for an unknown category id the ValidationError kind.  The other  *)
(* names are Python exceptions that no handler catches: they leave the     *)
(* request as an internal error.                                           *)
(***************************************************************************)
Ok              == "ok"
Conflict        == "Conflict"
NotFound        == "NotFound"
ValidationError == "ValidationError"
IntegrityError  == "IntegrityError"
StaleDataError  == "StaleDataError"
InvalidRequestError == "InvalidRequestError"

(***************************************************************************)
(* Table constraints                                                       *)
(***************************************************************************)
UniqueOn(rows, f) == \A r1, r2 \in rows : r1 # r2 => r1[f] # r2[f]

NotNull(rows, fs) == \A r \in rows : \A f \in fs : r[f] # Null

\* the users table without the unique index on email
UsersConstraint_NoEmail(rows) ==
    /\ UniqueOn(rows, "id") /\ UniqueOn(rows, "username")
    /\ NotNull(rows, {"username", "email", "hashed_password"})

UsersConstraint(rows) ==
    /\ UniqueOn(rows, "id") /\ UniqueOn(rows, "username") /\ UniqueOn(rows, "email")
    /\ NotNull(rows, {"username", "email", "hashed_password"})

CategoriesConstraint(rows) ==
    /\ UniqueOn(rows, "id") /\ UniqueOn(rows, "name") /\ UniqueOn(rows, "slug")
    /\ NotNull(rows, {"name", "slug"})

PostsConstraint(rows) ==
    /\ UniqueOn(rows, "id") /\ UniqueOn(rows, "slug")
    /\ NotNull(rows, {"title", "slug", "content"})
    /\ \A r \in rows : r.author_id # NullId

(***************************************************************************)
(* Password hashing (bcrypt): a salted digest, never the plaintext         *)
(***************************************************************************)
\* a store that keeps the password as given
hash_password_plain(password, salt) == password

hash_password(password, salt) == "$2b$" \o salt \o "$" \o password

verify_password(password, hashed) == \E s \in Salts : hashed = hash_password(password, s)

(***************************************************************************)
(* Lookups                                                                 *)
(***************************************************************************)
get(rows, id) == {r \in rows : r.id = id}

user_get_by_username(username) == {u \in users : u.username = username}

user_get_by_email(email) == {u \in users : u.email = email}

category_get_by_slug(slug) == {c \in categories : c.slug = slug}

category_get_by_name(name) == {c \in categories : c.name = name}

post_get_by_slug(slug) == {p \in posts : p.slug = slug}

(***************************************************************************)
(* Request tasks                                                           *)
(***************************************************************************)
NoInput == [none |-> TRUE]
NoRow   == [id |-> 0]

IdleReq == [op |-> "none", pc |-> "idle", inp |-> NoInput, res |-> "none",
            late |-> FALSE, conc |-> {}, snap |-> NoRow, cats |-> {}]

InFlight(p) == req[p].pc \notin {"idle", "done"}

Creating(p) == InFlight(p) /\ req[p].op \in {"create_user", "create_category", "create_post"}

\* a task picks up a new request; conc records which other tasks' current
\* requests overlap this one in time
Start(p, op, pc, inp) ==
    /\ ~InFlight(p)
    /\ "id" \in DOMAIN inp => inp.id < nextId
    /\ req' = [q \in Procs |->
                 IF q = p
                 THEN [op |-> op, pc |-> pc, inp |-> inp, res |-> "none", late |-> FALSE,
                       conc |-> {r \in Procs \ {p} : InFlight(r)},
                       snap |-> NoRow, cats |-> {}]
                 ELSE IF InFlight(q)
                      THEN [req[q] EXCEPT !.conc = @ \cup {p}]
                      ELSE [req[q] EXCEPT !.conc = @ \ {p}]]

\* the handler returns or raises: its locals are gone, the task keeps the outcome
\* and the unique key the request was about
KeyOf(inp) ==
    IF "username" \in DOMAIN inp THEN [username |-> inp.username]
    ELSE IF "slug" \in DOMAIN inp THEN [slug |-> inp.slug]
    ELSE IF "post" \in DOMAIN inp THEN [slug |-> inp.post.slug]
    ELSE NoInput

Finished(r, res, late) ==
    [r EXCEPT !.pc = "done", !.res = res, !.late = late, !.inp = KeyOf(r.inp),
              !.snap = NoRow, !.cats = {}]

Finish(p, r) == req' = [req EXCEPT ![p] = Finished(req[p], r, FALSE)]

FinishLate(p, r) == req' = [req EXCEPT ![p] = Finished(req[p], r, TRUE)]

Goto(p, pc) == req' = [req EXCEPT ![p].pc = pc]

At(p, op, pc) == req[p].op = op /\ req[p].pc = pc

CanAllocate == nextId + Cardinality({q \in Procs : Creating(q)}) <= MaxIds

store == <<users, categories, posts, post_categories, nextId>>

(***************************************************************************)
(* UserService.create_user                                                 *)
(***************************************************************************)
UserInputs == [username : Usernames, email : Emails, password : Passwords]

BeginCreateUser(p, inp) ==
    /\ svc = "users"
    /\ CanAllocate
    /\ Start(p, "create_user", "check_username", inp)
    /\ UNCHANGED <<store, svc, now, out>>

CreateUserCheckUsername(p) ==
    /\ At(p, "create_user", "check_username")
    /\ IF user_get_by_username(req[p].inp.username) # {}
       THEN Finish(p, Conflict)
       ELSE Goto(p, "check_email")
    /\ UNCHANGED <<store, svc, now, out>>

CreateUserCheckEmail(p) ==
    /\ At(p, "create_user", "check_email")
    /\ IF user_get_by_email(req[p].inp.email) # {}
       THEN Finish(p, Conflict)
       ELSE Goto(p, "commit")
    /\ UNCHANGED <<store, svc, now, out>>

NewUserRow(id, inp, salt) ==
    [id |-> id, username |-> inp.username, email |-> inp.email,
     hashed_password |-> hash_password(inp.password, salt), bio |-> Null,
     is_active |-> TRUE, is_superuser |-> FALSE]

\* db.add / db.commit with no except clause: a constraint violation leaves the
\* handler as IntegrityError
CreateUserCommit(p) ==
    /\ At(p, "create_user", "commit")
    /\ \E salt \in Salts :
         LET row == NewUserRow(nextId, req[p].inp, salt) IN
         IF UsersConstraint(users \cup {row})
         THEN /\ users' = users \cup {row}
              /\ FinishLate(p, Ok)
         ELSE /\ users' = users
              /\ FinishLate(p, IntegrityError)
    /\ nextId' = nextId + 1
    /\ UNCHANGED <<categories, posts, post_categories, svc, now, out>>

(***************************************************************************)
(* BaseService.update: only the fields present in the input are assigned;  *)
(* the UPDATE carries the attributes whose value differs from the loaded   *)
(* one.  IntegrityError is caught and re-raised as a 400.                  *)
(***************************************************************************)
\* what the handler's later steps read of the loaded object: its key and the
\* attributes the input assigns
Loaded(row, patch) ==
    [f \in {"id"} \cup (DOMAIN patch \cap DOMAIN row) |-> row[f]]

Changed(snap, patch) ==
    {f \in DOMAIN patch : f \in DOMAIN snap /\ patch[f] # snap[f]}

\* a merge that takes a null in the input for an absent field
Merge_skipping_null(row, snap, patch) ==
    [f \in DOMAIN row |->
        IF f \in Changed(snap, patch) /\ patch[f] # Null THEN patch[f] ELSE row[f]]

Merge(row, snap, patch) ==
    [f \in DOMAIN row |-> IF f \in Changed(snap, patch) THEN patch[f] ELSE row[f]]

\* the constraints of the table a service's model class maps to
TableConstraint(table, rows) ==
    IF table = "users" THEN UsersConstraint(rows)
    ELSE IF table = "categories" THEN CategoriesConstraint(rows)
    ELSE PostsConstraint(rows)

\* the outcome of update()'s commit on a table: <<result, table afterwards>>
UpdateCommit(rows, table, snap, patch) ==
    LET cur == get(rows, snap.id) IN
    IF cur = {}
    THEN <<IF Changed(snap, patch) = {} THEN InvalidRequestError ELSE StaleDataError, rows>>
    ELSE LET row   == CHOOSE r \in cur : TRUE
             after == (rows \ {row}) \cup {Merge(row, snap, patch)}
         IN IF TableConstraint(table, after) THEN <<Ok, after>> ELSE <<Conflict, rows>>

(***************************************************************************)
(* PUT /users/{user_id}: get_or_404, then the generic update               *)
(***************************************************************************)
UserPatches ==
    {[f \in {"username"} |-> u] : u \in Usernames} \cup
    {[f \in {"email"} |-> e] : e \in Emails}

BeginUpdateUser(p, id, patch) ==
    /\ svc = "users"
    /\ Start(p, "update_user", "load", [id |-> id, patch |-> patch])
    /\ UNCHANGED <<store, svc, now, out>>

UpdateUserLoad(p) ==
    /\ At(p, "update_user", "load")
    /\ LET found == get(users, req[p].inp.id) IN
       IF found = {}
       THEN Finish(p, NotFound)
       ELSE \E u \in found : req' = [req EXCEPT ![p].pc = "commit", ![p].snap = Loaded(u, req[p].inp.patch)]
    /\ UNCHANGED <<store, svc, now, out>>

UpdateUserCommit(p) ==
    /\ At(p, "update_user", "commit")
    /\ LET r == UpdateCommit(users, "users", req[p].snap, req[p].inp.patch) IN
       /\ users' = r[2]
       /\ Finish(p, r[1])
    /\ UNCHANGED <<categories, posts, post_categories, nextId, svc, now, out>>

(***************************************************************************)
(* CategoryService.create_category                                         *)
(***************************************************************************)
CategoryInputs == [name : Names, slug : Slugs]

BeginCreateCategory(p, inp) ==
    /\ svc = "categories"
    /\ CanAllocate
    /\ Start(p, "create_category", "check_slug", inp)
    /\ UNCHANGED <<store, svc, now, out>>

CreateCategoryCheckSlug(p) ==
    /\ At(p, "create_category", "check_slug")
    /\ IF category_get_by_slug(req[p].inp.slug) # {}
       THEN Finish(p, Conflict)
       ELSE Goto(p, "check_name")
    /\ UNCHANGED <<store, svc, now, out>>

CreateCategoryCheckName(p) ==
    /\ At(p, "create_category", "check_name")
    /\ IF category_get_by_name(req[p].inp.name) # {}
       THEN Finish(p, Conflict)
       ELSE Goto(p, "commit")
    /\ UNCHANGED <<store, svc, now, out>>

\* BaseService.create: IntegrityError is caught, rolled back and raised as a 400
CreateCategoryCommit(p) ==
    /\ At(p, "create_category", "commit")
    /\ LET row == [id |-> nextId, name |-> req[p].inp.name, slug |-> req[p].inp.slug] IN
       IF CategoriesConstraint(categories \cup {row})
       THEN /\ categories' = categories \cup {row}
            /\ FinishLate(p, Ok)
       ELSE /\ categories' = categories
            /\ FinishLate(p, Conflict)
    /\ nextId' = nextId + 1
    /\ UNCHANGED <<users, posts, post_categories, svc, now, out>>

(***************************************************************************)
(* CategoryService.update_category                                         *)
(***************************************************************************)
CategoryPatches ==
    {[f \in {"name"} |-> n] : n \in Names} \cup
    {[f \in {"slug"} |-> s] : s \in Slugs}

BeginUpdateCategory(p, id, patch) ==
    /\ svc = "categories"
    /\ Start(p, "update_category", "load", [id |-> id, patch |-> patch])
    /\ UNCHANGED <<store, svc, now, out>>

UpdateCategoryLoad(p) ==
    /\ At(p, "update_category", "load")
    /\ LET found == get(categories, req[p].inp.id) IN
       IF found = {}
       THEN Finish(p, NotFound)
       ELSE \E c \in found : req' = [req EXCEPT ![p].pc = "check_slug", ![p].snap = Loaded(c, req[p].inp.patch)]
    /\ UNCHANGED <<store, svc, now, out>>

\* a collision test that does not spare the row being updated
Collides_with_self(patch, f, snap, found) ==
    /\ f \in DOMAIN patch
    /\ patch[f] # Null
    /\ found # {}

\* the collision test shared by the slug and the name check of an update
Collides(patch, f, snap, found) ==
    /\ f \in DOMAIN patch
    /\ patch[f] # Null
    /\ patch[f] # snap[f]
    /\ \E e \in found : e.id # snap.id

UpdateCategoryCheckSlug(p) ==
    /\ At(p, "update_category", "check_slug")
    /\ LET patch == req[p].inp.patch IN
       IF "slug" \in DOMAIN patch
          /\ Collides(patch, "slug", req[p].snap, category_get_by_slug(patch.slug))
       THEN Finish(p, Conflict)
       ELSE Goto(p, "check_name")
    /\ UNCHANGED <<store, svc, now, out>>

UpdateCategoryCheckName(p) ==
    /\ At(p, "update_category", "check_name")
    /\ LET patch == req[p].inp.patch IN
       IF "name" \in DOMAIN patch
          /\ Collides(patch, "name", req[p].snap, category_get_by_name(patch.name))
       THEN Finish(p, Conflict)
       ELSE Goto(p, "commit")
    /\ UNCHANGED <<store, svc, now, out>>

UpdateCategoryCommit(p) ==
    /\ At(p, "update_category", "commit")
    /\ LET r == UpdateCommit(categories, "categories", req[p].snap,
                             req[p].inp.patch) IN
       /\ categories' = r[2]
       /\ Finish(p, r[1])
    /\ UNCHANGED <<users, posts, post_categories, nextId, svc, now, out>>

(***************************************************************************)
(* PostService.create_post                                                 *)
(***************************************************************************)
\* category_ids as sent by the client: a list, possibly naming an id twice
CategoryIdLists == {<<>>, <<2>>, <<1>>}

Range(seq) == {seq[i] : i \in DOMAIN seq}

PostInputs == [title : Titles, slug : Slugs, excerpt : Excerpts, content : Contents,
               category_ids : CategoryIdLists,
               is_published : {FALSE}, is_featured : {FALSE}]

BeginCreatePost(p, inp, author_id) ==
    /\ svc = "posts"
    /\ CanAllocate
    /\ get(users, author_id) # {}
    /\ Start(p, "create_post", "check_slug", [post |-> inp, author_id |-> author_id])
    /\ UNCHANGED <<store, svc, now, out>>

CreatePostCheckSlug(p) ==
    /\ At(p, "create_post", "check_slug")
    /\ IF post_get_by_slug(req[p].inp.post.slug) # {}
       THEN Finish(p, Conflict)
       ELSE Goto(p, "categories")
    /\ UNCHANGED <<store, svc, now, out>>

\* Category.id.in_(category_ids): the rows found, each once
CategoriesIn(ids) == {c \in categories : c.id \in Range(ids)}

\* a resolution that accepts whatever the IN query found
CategoriesResolved_any(found, ids) == TRUE

\* the length comparison that follows the IN query
CategoriesResolved(found, ids) == Cardinality(found) = Len(ids)

CreatePostCategories(p) ==
    /\ At(p, "create_post", "categories")
    /\ LET ids   == req[p].inp.post.category_ids
           found == IF ids # <<>> THEN CategoriesIn(ids) ELSE {}
       IN IF ids # <<>> /\ ~CategoriesResolved(found, ids)
          THEN Finish(p, ValidationError)
          ELSE req' = [req EXCEPT ![p].pc = "commit", ![p].cats = {c.id : c \in found}]
    /\ UNCHANGED <<store, svc, now, out>>

NewPostRow(id, inp, author_id) ==
    [id |-> id, title |-> inp.title, slug |-> inp.slug, excerpt |-> inp.excerpt,
     content |-> inp.content,
     author_id |-> author_id,
     is_published |-> inp.is_published, is_featured |-> inp.is_featured]

\* db.add / db.commit with no except clause; the post row and its association
\* rows are written by the one commit
CreatePostCommit(p) ==
    /\ At(p, "create_post", "commit")
    /\ LET row == NewPostRow(nextId, req[p].inp.post, req[p].inp.author_id) IN
       IF PostsConstraint(posts \cup {row})
       THEN /\ posts' = posts \cup {row}
            /\ post_categories' = post_categories \cup {<<row.id, c>> : c \in req[p].cats}
            /\ FinishLate(p, Ok)
       ELSE /\ UNCHANGED <<posts, post_categories>>
            /\ FinishLate(p, IntegrityError)
    /\ nextId' = nextId + 1
    /\ UNCHANGED <<users, categories, svc, now, out>>

(***************************************************************************)
(* PostService.update_post                                                 *)
(***************************************************************************)
PostPatches ==
    {[f \in {"slug"} |-> s] : s \in Slugs} \cup
    {[f \in {"category_ids"} |-> l] : l \in CategoryIdLists}

BeginUpdatePost(p, id, patch) ==
    /\ svc = "posts"
    /\ Start(p, "update_post", "load", [id |-> id, patch |-> patch])
    /\ UNCHANGED <<store, svc, now, out>>

UpdatePostLoad(p) ==
    /\ At(p, "update_post", "load")
    /\ LET found == get(posts, req[p].inp.id) IN
       IF found = {}
       THEN Finish(p, NotFound)
       ELSE \E r \in found : req' = [req EXCEPT ![p].pc = "check_slug", ![p].snap = Loaded(r, req[p].inp.patch)]
    /\ UNCHANGED <<store, svc, now, out>>

UpdatePostCheckSlug(p) ==
    /\ At(p, "update_post", "check_slug")
    /\ LET patch == req[p].inp.patch IN
       IF "slug" \in DOMAIN patch
          /\ Collides(patch, "slug", req[p].snap, post_get_by_slug(patch.slug))
       THEN Finish(p, Conflict)
       ELSE Goto(p, "categories")
    /\ UNCHANGED <<store, svc, now, out>>

\* "replace" tells the commit whether post.categories was assigned
UpdatePostCategories(p) ==
    /\ At(p, "update_post", "categories")
    /\ LET patch == req[p].inp.patch IN
       IF "category_ids" \in DOMAIN patch
       THEN LET found == CategoriesIn(patch.category_ids) IN
            IF ~CategoriesResolved(found, patch.category_ids)
            THEN Finish(p, ValidationError)
            ELSE req' = [req EXCEPT ![p].pc = "commit", ![p].cats = {c.id : c \in found}]
       ELSE Goto(p, "commit")
    /\ UNCHANGED <<store, svc, now, out>>

\* model_dump(exclude_unset=True, exclude={'category_ids'})
PostFieldPatch(patch) == [f \in DOMAIN patch \ {"category_ids"} |-> patch[f]]

\* an update whose supplied categories are added to the ones already there
PostUpdateCommit_merging(snap, patch, cats) ==
    LET r == UpdateCommit(posts, "posts", snap, PostFieldPatch(patch)) IN
    IF r[1] = Ok
    THEN <<Ok, r[2], post_categories \cup {<<snap.id, c>> : c \in cats}>>
    ELSE <<IF r[1] = Conflict THEN IntegrityError ELSE r[1], posts, post_categories>>

\* an update whose refused commit leaves the post without its associations
PostUpdateCommit_unrolled(snap, patch, cats) ==
    LET r == UpdateCommit(posts, "posts", snap, PostFieldPatch(patch)) IN
    IF r[1] = Ok
    THEN <<Ok, r[2],
           IF "category_ids" \in DOMAIN patch
           THEN {pc \in post_categories : pc[1] # snap.id} \cup {<<snap.id, c>> : c \in cats}
           ELSE post_categories>>
    ELSE <<IF r[1] = Conflict THEN IntegrityError ELSE r[1], posts,
           {pc \in post_categories : pc[1] # snap.id}>>

\* db.add / db.commit with no except clause: <<result, posts, post_categories>>
\* after the commit of an update of the post loaded as snap
PostUpdateCommit(snap, patch, cats) ==
    LET r == UpdateCommit(posts, "posts", snap, PostFieldPatch(patch)) IN
    IF r[1] = Ok
    THEN <<Ok, r[2],
           IF "category_ids" \in DOMAIN patch
           THEN {pc \in post_categories : pc[1] # snap.id} \cup {<<snap.id, c>> : c \in cats}
           ELSE post_categories>>
    ELSE <<IF r[1] = Conflict THEN IntegrityError ELSE r[1], posts, post_categories>>

UpdatePostCommit(p) ==
    /\ At(p, "update_post", "commit")
    /\ LET r == PostUpdateCommit(req[p].snap, req[p].inp.patch, req[p].cats) IN
       /\ posts' = r[2]
       /\ post_categories' = r[3]
       /\ Finish(p, r[1])
    /\ UNCHANGED <<users, categories, nextId, svc, now, out>>

\* update_post run without interruption: <<result, posts, post_categories>>
update_post(post_id, patch) ==
    LET found == get(posts, post_id) IN
    IF found = {} THEN <<NotFound, posts, post_categories>>
    ELSE LET snap == Loaded(CHOOSE r \in found : TRUE, patch) IN
         IF "slug" \in DOMAIN patch
            /\ Collides(patch, "slug", snap, post_get_by_slug(patch.slug))
         THEN <<Conflict, posts, post_categories>>
         ELSE IF "category_ids" \in DOMAIN patch
                 /\ ~CategoriesResolved(CategoriesIn(patch.category_ids), patch.category_ids)
         THEN <<ValidationError, posts, post_categories>>
         ELSE PostUpdateCommit(snap, patch,
                  IF "category_ids" \in DOMAIN patch
                  THEN {c.id : c \in CategoriesIn(patch.category_ids)} ELSE {})

\* BaseService.remove on posts: <<posts, post_categories>> afterwards; the
\* association rows of a deleted post go with it
remove_post(post_id) ==
    <<{r \in posts : r.id # post_id}, {pc \in post_categories : pc[1] # post_id}>>

\* PUT /users/{user_id} run without interruption: <<result, users>>
update_user(user_id, patch) ==
    LET found == get(users, user_id) IN
    IF found = {} THEN <<NotFound, users>>
    ELSE UpdateCommit(users, "users", Loaded(CHOOSE r \in found : TRUE, patch), patch)

\* a create_category that looks at the slug only
create_category_slug_only(inp, id) ==
    IF category_get_by_slug(inp.slug) # {} THEN <<Conflict, categories>>
    ELSE <<Ok, categories \cup {[id |-> id, name |-> inp.name, slug |-> inp.slug]}>>

\* CategoryService.create_category run without interruption, the new row
\* getting primary key id: <<result, categories>>
create_category(inp, id) ==
    IF category_get_by_slug(inp.slug) # {} THEN <<Conflict, categories>>
    ELSE IF category_get_by_name(inp.name) # {} THEN <<Conflict, categories>>
    ELSE LET row == [id |-> id, name |-> inp.name, slug |-> inp.slug] IN
         IF CategoriesConstraint(categories \cup {row})
         THEN <<Ok, categories \cup {row}>>
         ELSE <<Conflict, categories>>

\* CategoryService.update_category run without interruption: <<result, categories>>
update_category(category_id, patch) ==
    LET found == get(categories, category_id) IN
    IF found = {} THEN <<NotFound, categories>>
    ELSE LET snap == Loaded(CHOOSE r \in found : TRUE, patch) IN
         IF "slug" \in DOMAIN patch
            /\ Collides(patch, "slug", snap, category_get_by_slug(patch.slug))
         THEN <<Conflict, categories>>
         ELSE IF "name" \in DOMAIN patch
                 /\ Collides(patch, "name", snap, category_get_by_name(patch.name))
         THEN <<Conflict, categories>>
         ELSE UpdateCommit(categories, "categories", snap, patch)

\* PostService.create_post run without interruption, the new row getting
\* primary key id: <<result, posts, post_categories>>
create_post(inp, author_id, id) ==
    IF post_get_by_slug(inp.slug) # {} THEN <<Conflict, posts, post_categories>>
    ELSE LET ids   == inp.category_ids
             found == IF ids # <<>> THEN CategoriesIn(ids) ELSE {}
         IN IF ids # <<>> /\ ~CategoriesResolved(found, ids)
            THEN <<ValidationError, posts, post_categories>>
            ELSE LET row == NewPostRow(id, inp, author_id) IN
                 IF PostsConstraint(posts \cup {row})
                 THEN <<Ok, posts \cup {row},
                        post_categories \cup {<<id, c.id>> : c \in found}>>
                 ELSE <<IntegrityError, posts, post_categories>>

\* a category removal that leaves the association table alone
remove_category_keeping_rows(category_id) ==
    <<{c \in categories : c.id # category_id}, post_categories>>

\* BaseService.remove on categories: <<categories, post_categories>> afterwards;
\* the unit of work deletes the association rows of the deleted category
remove_category(category_id) ==
    <<{c \in categories : c.id # category_id},
      {pc \in post_categories : pc[2] # category_id}>>

\* a user removal that deletes the row whatever refers to it
remove_user_unchecked(user_id) ==
    <<Ok, users \ get(users, user_id), posts>>

\* BaseService.remove on users: <<result, users, posts>>.  User.posts has no
\* delete cascade: the unit of work sets author_id of the user's posts to NULL
\* before deleting the user row, and the commit fails on the NOT NULL column
remove_user(user_id) ==
    LET authored == {r \in posts : r.author_id = user_id}
        after    == (posts \ authored) \cup {[r EXCEPT !.author_id = NullId] : r \in authored}
    IN  IF get(users, user_id) = {} THEN <<Ok, users, posts>>
        ELSE IF ~PostsConstraint(after) THEN <<IntegrityError, users, posts>>
        ELSE <<Ok, users \ get(users, user_id), after>>

(***************************************************************************)
(* The store as seeded (seed_data.py): one account, one category           *)
(***************************************************************************)
SeedUser == [id |-> 1, username |-> "alice", email |-> "a@x",
             hashed_password |-> hash_password("pw1", "s"), bio |-> Null,
             is_active |-> TRUE, is_superuser |-> FALSE]

SeedCategory == [id |-> 2, name |-> "News", slug |-> "one"]

Seeded ==
    /\ users = {SeedUser} /\ categories = {SeedCategory}
    /\ posts = {} /\ post_categories = {}
    /\ nextId = 3

(***************************************************************************)
(* Store specification: two request tasks run the handlers of one service  *)
(* at a time, each handler one database round trip per step.               *)
(***************************************************************************)
Init ==
    /\ Seeded
    /\ req = [p \in Procs |-> IdleReq]
    /\ svc \in {"users", "categories", "posts"}
    /\ now = 0
    /\ out = [op |-> "none"]

Next ==
    \/ \E p \in Procs, inp \in UserInputs : BeginCreateUser(p, inp)
    \/ \E p \in Procs : CreateUserCheckUsername(p)
    \/ \E p \in Procs : CreateUserCheckEmail(p)
    \/ \E p \in Procs : CreateUserCommit(p)
    \/ \E p \in Procs, id \in Ids, patch \in UserPatches : BeginUpdateUser(p, id, patch)
    \/ \E p \in Procs : UpdateUserLoad(p)
    \/ \E p \in Procs : UpdateUserCommit(p)
    \/ \E p \in Procs, inp \in CategoryInputs : BeginCreateCategory(p, inp)
    \/ \E p \in Procs : CreateCategoryCheckSlug(p)
    \/ \E p \in Procs : CreateCategoryCheckName(p)
    \/ \E p \in Procs : CreateCategoryCommit(p)
    \/ \E p \in Procs, id \in Ids, patch \in CategoryPatches : BeginUpdateCategory(p, id, patch)
    \/ \E p \in Procs : UpdateCategoryLoad(p)
    \/ \E p \in Procs : UpdateCategoryCheckSlug(p)
    \/ \E p \in Procs : UpdateCategoryCheckName(p)
    \/ \E p \in Procs : UpdateCategoryCommit(p)
    \/ \E p \in Procs, inp \in PostInputs, a \in Ids : BeginCreatePost(p, inp, a)
    \/ \E p \in Procs : CreatePostCheckSlug(p)
    \/ \E p \in Procs : CreatePostCategories(p)
    \/ \E p \in Procs : CreatePostCommit(p)
    \/ \E p \in Procs, id \in Ids, patch \in PostPatches : BeginUpdatePost(p, id, patch)
    \/ \E p \in Procs : UpdatePostLoad(p)
    \/ \E p \in Procs : UpdatePostCheckSlug(p)
    \/ \E p \in Procs : UpdatePostCategories(p)
    \/ \E p \in Procs : UpdatePostCommit(p)

Spec == Init /\ [][Next]_vars

(***************************************************************************)
(* Results of the credential and guard functions: a returned value or a    *)
(* raised exception                                                        *)
(***************************************************************************)
None == [none |-> TRUE]

Return(v) == [kind |-> "return", val |-> v]

Raise(e) == [kind |-> "raise", exc |-> e]

Returned(r) == r.kind = "return"

Raised(r, e) == r.kind = "raise" /\ r.exc = e

Unauthorized    == "Unauthorized"
InactiveAccount == "InactiveAccount"
Forbidden       == "Forbidden"
AttributeError  == "AttributeError"
JWTError        == "JWTError"

\* the exceptions that are fastapi.HTTPException
HTTPExceptions ==
    {Unauthorized, InactiveAccount, Forbidden, NotFound, Conflict, ValidationError}

(***************************************************************************)
(* Settings: the fields the class declares.  Reading any other attribute   *)
(* of the settings object raises AttributeError.                           *)
(***************************************************************************)
AccessTokenExpireMinutes == 30

settings ==
    [environment |-> "development", database_url |-> Null,
     postgres_user |-> "postgres", postgres_password |-> "password",
     postgres_host |-> "localhost", postgres_port |-> 5432, postgres_db |-> "blog",
     app_name |-> "FastAPI Blog", debug |-> TRUE, api_v1_prefix |-> "/api/v1",
     secret_key |-> Null, access_token_expire_minutes |-> AccessTokenExpireMinutes]

HasAttr(obj, name) == name \in DOMAIN obj

(***************************************************************************)
(* Tokens.  A bearer token presented to the service is a JWT signed with   *)
(* the configured key ("signed"), a JWT whose signature does not match     *)
(* ("tampered"), or a string that is no JWT ("garbage"); a JWT carries a    *)
(* subject claim, or none, and an expiry.                                  *)
(***************************************************************************)
MaxTime == 2

NoSub    == "<no sub>"
Subjects == {"alice", "bob", "admin"}

Tokens == [sub : Subjects \cup {NoSub}, exp : 0 .. MaxTime,
           form : {"signed", "tampered", "garbage"}]

NoCredentials == None

Credentials == Tokens \cup {NoCredentials}

Ttls == {1, 2}

\* jose.jwt.encode
jwt_encode(claims) == [sub |-> claims.sub, exp |-> claims.exp, form |-> "signed"]

\* jose.jwt.decode: the signature, then the exp claim against the clock
jwt_decode(token, t) ==
    IF token.form # "signed" THEN Raise(JWTError)
    ELSE IF token.exp < t THEN Raise(JWTError)
    ELSE Return([sub |-> token.sub, exp |-> token.exp])

\* AuthService.create_access_token(data={"sub": sub}, expires_delta=ttl)
create_access_token(sub, ttl, t) ==
    LET expire == t + ttl IN
    IF ~HasAttr(settings, "algorithm")
    THEN Raise(AttributeError)
    ELSE Return(jwt_encode([sub |-> sub, exp |-> expire]))

\* AuthService.verify_token: settings.algorithm is read inside the try block,
\* whose except clause names JWTError only
verify_token(token, t) ==
    IF ~HasAttr(settings, "algorithm")
    THEN Raise(AttributeError)
    ELSE LET r == jwt_decode(token, t) IN
         IF Raised(r, JWTError) THEN Return(None) ELSE r

\* AuthService.get_current_user_from_token
get_current_user_from_token(token, t) ==
    LET payload == verify_token(token, t) IN
    IF ~Returned(payload) THEN payload
    ELSE IF payload.val = None THEN Return(None)
    ELSE IF payload.val.sub = NoSub THEN Return(None)
    ELSE LET found == user_get_by_username(payload.val.sub) IN
         IF found = {} THEN Return(None) ELSE Return(CHOOSE u \in found : TRUE)

\* the body of get_current_user's try block
get_current_user_try(credentials, t) ==
    IF credentials = NoCredentials THEN Raise(AttributeError)
    ELSE LET user == get_current_user_from_token(credentials, t) IN
         IF ~Returned(user) THEN user
         ELSE IF user.val = None THEN Raise(Unauthorized)
         ELSE IF ~user.val.is_active THEN Raise(InactiveAccount)
         ELSE user

\* dependencies.get_current_user: "except Exception" turns everything raised in
\* the try block, the Inactive-user HTTPException included, into the 401
get_current_user(credentials, t) ==
    LET r == get_current_user_try(credentials, t) IN
    IF Returned(r) THEN r ELSE Raise(Unauthorized)

\* an optional resolution that propagates the failure instead of downgrading it
get_current_user_optional_raising(credentials, t) ==
    IF credentials = NoCredentials THEN Return(None) ELSE get_current_user(credentials, t)

\* dependencies.get_current_user_optional
get_current_user_optional(credentials, t) ==
    IF credentials = NoCredentials THEN Return(None)
    ELSE LET r == get_current_user(credentials, t) IN
         IF ~Returned(r) /\ r.exc \in HTTPExceptions THEN Return(None) ELSE r

\* an ownership test without the superuser bypass
verify_post_ownership_author_only(post_id, current_user) ==
    LET found == get(posts, post_id) IN
    IF found = {} THEN Raise(NotFound)
    ELSE IF (CHOOSE p \in found : TRUE).author_id # current_user.id
         THEN Raise(Forbidden)
         ELSE Return(current_user)

\* dependencies.verify_post_ownership
verify_post_ownership(post_id, current_user) ==
    LET found == get(posts, post_id) IN
    IF found = {} THEN Raise(NotFound)
    ELSE IF (CHOOSE p \in found : TRUE).author_id # current_user.id
            /\ ~current_user.is_superuser
         THEN Raise(Forbidden)
         ELSE Return(current_user)

\* AuthService.authenticate_user
authenticate_user(username, password) ==
    LET found == user_get_by_username(username) IN
    IF found = {} THEN None
    ELSE LET user == CHOOSE u \in found : TRUE IN
         IF ~verify_password(password, user.hashed_password) THEN None ELSE user

(***************************************************************************)
(* Guard specification: the credential and guard functions are called on   *)
(* every credential, at every time, while accounts are renamed and         *)
(* (de)activated; out holds the call made in the current state.            *)
(***************************************************************************)
Bob   == [id |-> 4, username |-> "bob", email |-> "b@x",
          hashed_password |-> hash_password("pw2", "s"), bio |-> Null,
          is_active |-> TRUE, is_superuser |-> FALSE]

Admin == [id |-> 5, username |-> "admin", email |-> "root@x",
          hashed_password |-> hash_password("pw1", "s"), bio |-> Null,
          is_active |-> TRUE, is_superuser |-> TRUE]

SeedPost == [id |-> 3, title |-> "t", slug |-> "one", excerpt |-> "e", content |-> "c",
             author_id |-> 1,
             is_published |-> TRUE, is_featured |-> FALSE]

PostIds == {3, 6}

NoCall == [op |-> "none"]

InitAuth ==
    /\ users = {SeedUser, Bob, Admin} /\ categories = {SeedCategory}
    /\ posts = {SeedPost} /\ post_categories = {<<3, 2>>}
    /\ nextId = 6
    /\ req = [p \in Procs |-> IdleReq]
    /\ svc = "auth"
    /\ now = 0
    /\ out = NoCall

Tick ==
    /\ now < MaxTime
    /\ now' = now + 1
    /\ out' = NoCall
    /\ UNCHANGED <<store, req, svc>>

\* the caller has its answer
Respond ==
    /\ out # NoCall
    /\ out' = NoCall
    /\ UNCHANGED <<store, req, svc, now>>

AccountPatches ==
    {[f \in {"is_active"} |-> b] : b \in BOOLEAN} \cup
    {[f \in {"username"} |-> u] : u \in {"bob", "robert"}}

\* PUT /users/{user_id}
UpdateUser(user_id, patch) ==
    /\ LET r == update_user(user_id, patch) IN
       /\ r[1] = Ok
       /\ users' = r[2]
       /\ users' # users
    /\ out' = NoCall
    /\ UNCHANGED <<categories, posts, post_categories, nextId, req, svc, now>>

CallCreateAccessToken(sub, ttl) ==
    /\ out = NoCall
    /\ out' = [op |-> "create_access_token", sub |-> sub, ttl |-> ttl,
               r |-> create_access_token(sub, ttl, now)]
    /\ UNCHANGED <<store, req, svc, now>>

CallVerifyToken(token) ==
    /\ out = NoCall
    /\ out' = [op |-> "verify_token", token |-> token, r |-> verify_token(token, now)]
    /\ UNCHANGED <<store, req, svc, now>>

CallGetCurrentUserFromToken(token) ==
    /\ out = NoCall
    /\ out' = [op |-> "get_current_user_from_token", token |-> token,
               r |-> get_current_user_from_token(token, now)]
    /\ UNCHANGED <<store, req, svc, now>>

CallGetCurrentUser(credentials) ==
    /\ out = NoCall
    /\ out' = [op |-> "get_current_user", credentials |-> credentials,
               r |-> get_current_user(credentials, now)]
    /\ UNCHANGED <<store, req, svc, now>>

CallGetCurrentUserOptional(credentials) ==
    /\ out = NoCall
    /\ out' = [op |-> "get_current_user_optional", credentials |-> credentials,
               r |-> get_current_user_optional(credentials, now)]
    /\ UNCHANGED <<store, req, svc, now>>

CallVerifyPostOwnership(post_id, user) ==
    /\ out = NoCall
    /\ out' = [op |-> "verify_post_ownership", post_id |-> post_id, user |-> user,
               r |-> verify_post_ownership(post_id, user)]
    /\ UNCHANGED <<store, req, svc, now>>

\* a login that does not look at the active flag
Login_any_account(username, password) ==
    /\ out = NoCall
    /\ LET user == authenticate_user(username, password) IN
       out' = [op |-> "login", username |-> username,
               r |-> IF user = None THEN Raise(Unauthorized)
                     ELSE create_access_token(user.username,
                                              AccessTokenExpireMinutes * 60, now)]
    /\ UNCHANGED <<store, req, svc, now>>

\* POST /auth/login
Login(username, password) ==
    /\ out = NoCall
    /\ LET user == authenticate_user(username, password) IN
       out' = [op |-> "login", username |-> username,
               r |-> IF user = None THEN Raise(Unauthorized)
                     ELSE IF ~user.is_active THEN Raise(InactiveAccount)
                     ELSE create_access_token(user.username,
                                              AccessTokenExpireMinutes * 60, now)]
    /\ UNCHANGED <<store, req, svc, now>>

\* the dependencies of the post update and delete endpoints: HTTPBearer (which
\* refuses a request without credentials with 403 or 401, by framework version),
\* get_current_user, verify_post_ownership
OwnershipDependency(credentials, post_id) ==
    IF credentials = NoCredentials THEN {Raise(Forbidden), Raise(Unauthorized)}
    ELSE LET user == get_current_user(credentials, now) IN
         IF ~Returned(user) THEN {user}
         ELSE {verify_post_ownership(post_id, user.val)}

\* PUT /posts/{post_id}
PutPost(credentials, post_id, patch) ==
    /\ out = NoCall
    /\ \E dep \in OwnershipDependency(credentials, post_id) :
         IF ~Returned(dep)
         THEN /\ out' = [op |-> "PUT /posts", post_id |-> post_id, r |-> dep]
              /\ UNCHANGED <<posts, post_categories>>
         ELSE LET r == update_post(post_id, patch) IN
              /\ posts' = r[2]
              /\ post_categories' = r[3]
              /\ out' = [op |-> "PUT /posts", post_id |-> post_id, actor |-> dep.val,
                         r |-> IF r[1] = Ok THEN Return(None) ELSE Raise(r[1])]
    /\ UNCHANGED <<users, categories, nextId, req, svc, now>>

\* DELETE /posts/{post_id}
DeletePost(credentials, post_id) ==
    /\ out = NoCall
    /\ \E dep \in OwnershipDependency(credentials, post_id) :
         IF ~Returned(dep)
         THEN /\ out' = [op |-> "DELETE /posts", post_id |-> post_id, r |-> dep]
              /\ UNCHANGED <<posts, post_categories>>
         ELSE LET r == remove_post(post_id) IN
              /\ posts' = r[1]
              /\ post_categories' = r[2]
              /\ out' = [op |-> "DELETE /posts", post_id |-> post_id, actor |-> dep.val,
                         r |-> Return(None)]
    /\ UNCHANGED <<users, categories, nextId, req, svc, now>>

NextAuth ==
    \/ Tick
    \/ Respond
    \/ \E u \in {1, 4, 5}, patch \in AccountPatches : UpdateUser(u, patch)
    \/ \E sub \in Subjects, ttl \in Ttls : CallCreateAccessToken(sub, ttl)
    \/ \E token \in Tokens : CallVerifyToken(token)
    \/ \E token \in Tokens : CallGetCurrentUserFromToken(token)
    \/ \E c \in Credentials : CallGetCurrentUser(c)
    \/ \E c \in Credentials : CallGetCurrentUserOptional(c)
    \/ \E post_id \in PostIds, user \in users : CallVerifyPostOwnership(post_id, user)
    \/ \E u \in Subjects, pw \in Passwords : Login(u, pw)
    \/ \E c \in Credentials, post_id \in PostIds, patch \in PostPatches :
         PutPost(c, post_id, patch)
    \/ \E c \in Credentials, post_id \in PostIds : DeletePost(c, post_id)

SpecAuth == InitAuth /\ [][NextAuth]_vars

(***************************************************************************)
(* Service specification: one request at a time.  Every call runs to       *)
(* completion before the next one starts; out holds the call just made and *)
(* its result.  A behaviour exercises the content handlers (categories and *)
(* posts) or the account handlers (users and their posts).                 *)
(***************************************************************************)
InitSvc ==
    /\ Seeded
    /\ req = [p \in Procs |-> IdleReq]
    /\ svc \in {"content", "accounts"}
    /\ now = 0
    /\ out = NoCall

\* category_ids that name a category twice
RepeatedIdLists == {<<2, 2>>}

\* PostCreate inputs with such a list
RepeatingInputs == [title : Titles, slug : Slugs, excerpt : Excerpts, content : Contents,
                    category_ids : RepeatedIdLists,
                    is_published : {FALSE}, is_featured : {FALSE}]

\* PostUpdate inputs: one field set, possibly to null
PostUpdates ==
    PostPatches \cup
    {[f \in {"category_ids"} |-> l] : l \in RepeatedIdLists} \cup
    {[f \in {"title"} |-> t] : t \in {"u", Null}} \cup
    {[f \in {"excerpt"} |-> e] : e \in {Null}} \cup
    {[f \in {"is_published"} |-> b] : b \in {TRUE}}

\* UserUpdate inputs that touch the profile only
ProfilePatches == {[f \in {"bio"} |-> b] : b \in {"b", Null}}

\* the row a call is about as it is before the call, NoRow if there is none
RowBefore(rows, id) == IF get(rows, id) = {} THEN NoRow ELSE CHOOSE r \in get(rows, id) : TRUE

\* the category ids associated with a post
CategoriesOf(post_id) == {pc[2] : pc \in {x \in post_categories : x[1] = post_id}}

\* POST /categories
PostCategory(inp) ==
    /\ svc = "content"
    /\ out = NoCall
    /\ nextId <= MaxIds
    /\ LET r == create_category(inp, nextId) IN
       /\ categories' = r[2]
       /\ out' = [op |-> "create_category", inp |-> inp, r |-> r[1]]
    /\ nextId' = nextId + 1
    /\ UNCHANGED <<users, posts, post_categories, req, svc, now>>

\* PUT /categories/{category_id}
PutCategory(category_id, patch) ==
    /\ svc = "content"
    /\ out = NoCall
    /\ category_id <= nextId
    /\ LET r == update_category(category_id, patch) IN
       /\ categories' = r[2]
       /\ out' = [op |-> "update_category", id |-> category_id, patch |-> patch,
                  was |-> RowBefore(categories, category_id), r |-> r[1]]
    /\ UNCHANGED <<users, posts, post_categories, nextId, req, svc, now>>

\* DELETE /categories/{category_id}: get_or_404, then remove
DeleteCategory(category_id) ==
    /\ svc = "content"
    /\ out = NoCall
    /\ category_id <= nextId
    /\ IF get(categories, category_id) = {}
       THEN /\ out' = [op |-> "remove_category", id |-> category_id, r |-> NotFound]
            /\ UNCHANGED <<categories, post_categories>>
       ELSE LET r == remove_category(category_id) IN
            /\ categories' = r[1]
            /\ post_categories' = r[2]
            /\ out' = [op |-> "remove_category", id |-> category_id,
                       had |-> {pc[1] : pc \in {x \in post_categories : x[2] = category_id}},
                       r |-> Ok]
    /\ UNCHANGED <<users, posts, nextId, req, svc, now>>

\* post_service.create_post, as POST /posts calls it with the current user's id
CallCreatePost(inp, author_id) ==
    /\ svc \in {"content", "accounts"}
    /\ out = NoCall
    /\ nextId <= MaxIds
    /\ get(users, author_id) # {}
    /\ LET r == create_post(inp, author_id, nextId) IN
       /\ posts' = r[2]
       /\ post_categories' = r[3]
       /\ out' = [op |-> "create_post", inp |-> inp, author_id |-> author_id, r |-> r[1]]
    /\ nextId' = nextId + 1
    /\ UNCHANGED <<users, categories, req, svc, now>>

\* post_service.update_post, as PUT /posts/{post_id} calls it
CallUpdatePost(post_id, patch) ==
    /\ svc = "content"
    /\ out = NoCall
    /\ post_id <= nextId
    /\ LET r == update_post(post_id, patch) IN
       /\ posts' = r[2]
       /\ post_categories' = r[3]
       /\ out' = [op |-> "update_post", id |-> post_id, patch |-> patch,
                  was |-> RowBefore(posts, post_id), had |-> CategoriesOf(post_id),
                  r |-> r[1]]
    /\ UNCHANGED <<users, categories, nextId, req, svc, now>>

\* post_service.remove, as DELETE /posts/{post_id} calls it
CallRemovePost(post_id) ==
    /\ svc \in {"content", "accounts"}
    /\ out = NoCall
    /\ get(posts, post_id) # {}
    /\ LET r == remove_post(post_id) IN
       /\ posts' = r[1]
       /\ post_categories' = r[2]
    /\ out' = [op |-> "remove_post", id |-> post_id, had |-> CategoriesOf(post_id), r |-> Ok]
    /\ UNCHANGED <<users, categories, nextId, req, svc, now>>

\* PUT /users/{user_id}
PutUser(user_id, patch) ==
    /\ svc = "accounts"
    /\ out = NoCall
    /\ user_id <= nextId
    /\ LET r == update_user(user_id, patch) IN
       /\ users' = r[2]
       /\ out' = [op |-> "update_user", id |-> user_id, patch |-> patch,
                  was |-> RowBefore(users, user_id), r |-> r[1]]
    /\ UNCHANGED <<categories, posts, post_categories, nextId, req, svc, now>>

\* DELETE /users/{user_id}: get_or_404, then remove
DeleteUser(user_id) ==
    /\ svc = "accounts"
    /\ out = NoCall
    /\ user_id <= nextId
    /\ IF get(users, user_id) = {}
       THEN /\ out' = [op |-> "remove_user", id |-> user_id, r |-> NotFound]
            /\ UNCHANGED <<users, posts>>
       ELSE LET r == remove_user(user_id) IN
            /\ users' = r[2]
            /\ posts' = r[3]
            /\ out' = [op |-> "remove_user", id |-> user_id, r |-> r[1]]
    /\ UNCHANGED <<categories, post_categories, nextId, req, svc, now>>

\* the fields of PostUpdate that the model's post rows carry
PostUpdateFields ==
    {"title", "slug", "excerpt", "content", "category_ids", "is_published", "is_featured"}

\* request bodies that name an author beside, or instead of, a field of PostUpdate
PostBodies ==
    {[f \in {"author_id"} |-> 2]} \cup
    {[author_id |-> 2, title |-> t] : t \in {"u"}}

\* a schema that keeps the keys it does not declare
PostUpdate_allowing_extra(body) == body

\* PostUpdate(**body): keys that are not fields of the schema are ignored
PostUpdate(body) == [f \in DOMAIN body \cap PostUpdateFields |-> body[f]]

\* PUT /posts/{post_id} with a request body: FastAPI builds post_in from it
PutPostBody(post_id, body) ==
    /\ svc = "content"
    /\ out = NoCall
    /\ post_id <= nextId
    /\ LET patch == PostUpdate(body)
           r     == update_post(post_id, patch)
       IN  /\ posts' = r[2]
           /\ post_categories' = r[3]
           /\ out' = [op |-> "update_post", id |-> post_id, patch |-> patch,
                      body |-> body,
                      was |-> RowBefore(posts, post_id), had |-> CategoriesOf(post_id),
                      r |-> r[1]]
    /\ UNCHANGED <<users, categories, nextId, req, svc, now>>

\* a removal that treats a missing id as an error
remove_or_404(table, id) ==
    LET rows == IF table = "users" THEN users
                ELSE IF table = "categories" THEN categories ELSE posts
    IN  IF get(rows, id) = {}
        THEN <<Raise(NotFound), users, categories, posts, post_categories>>
        ELSE <<Return(CHOOSE r \in get(rows, id) : TRUE),
               IF table = "users" THEN users \ get(rows, id) ELSE users,
               IF table = "categories" THEN categories \ get(rows, id) ELSE categories,
               IF table = "posts" THEN posts \ get(rows, id) ELSE posts,
               post_categories>>

\* BaseService.remove of the service of a table:
\* <<outcome, users, categories, posts, post_categories>>, the outcome being the
\* deleted row, None when no row has the id, or the exception of the commit
remove(table, id) ==
    LET rows == IF table = "users" THEN users
                ELSE IF table = "categories" THEN categories ELSE posts
        obj  == get(rows, id)
    IN  IF obj = {} THEN <<Return(None), users, categories, posts, post_categories>>
        ELSE LET row == CHOOSE r \in obj : TRUE IN
             IF table = "users"
             THEN LET r == remove_user(id) IN
                  <<IF r[1] = Ok THEN Return(row) ELSE Raise(r[1]),
                    r[2], categories, r[3], post_categories>>
             ELSE IF table = "categories"
             THEN LET r == remove_category(id) IN
                  <<Return(row), users, r[1], posts, r[2]>>
             ELSE LET r == remove_post(id) IN
                  <<Return(row), users, categories, r[1], r[2]>>

\* a call of remove on the service of a table, with any id
CallRemove(table, id) ==
    /\ \/ svc = "content" /\ table \in {"categories", "posts"}
       \/ svc = "accounts" /\ table \in {"users", "posts"}
    /\ out = NoCall
    /\ LET r == remove(table, id) IN
       /\ users' = r[2]
       /\ categories' = r[3]
       /\ posts' = r[4]
       /\ post_categories' = r[5]
       /\ out' = [op |-> "remove", table |-> table, id |-> id, r |-> r[1]]
    /\ UNCHANGED <<nextId, req, svc, now>>

NextSvc ==
    \/ Respond
    \/ \E table \in {"users", "categories", "posts"}, id \in Ids : CallRemove(table, id)
    \/ \E id \in Ids, body \in PostBodies : PutPostBody(id, body)
    \/ \E inp \in CategoryInputs : PostCategory(inp)
    \/ \E id \in Ids, patch \in CategoryPatches : PutCategory(id, patch)
    \/ \E id \in Ids : DeleteCategory(id)
    \/ \E inp \in PostInputs \cup RepeatingInputs, a \in Ids : CallCreatePost(inp, a)
    \/ \E id \in Ids, patch \in PostUpdates : CallUpdatePost(id, patch)
    \/ \E id \in Ids : CallRemovePost(id)
    \/ \E id \in Ids, patch \in ProfilePatches : PutUser(id, patch)
    \/ \E id \in Ids : DeleteUser(id)

SpecSvc == InitSvc /\ [][NextSvc]_vars

(***************************************************************************)
(* Listings and search: the queries of PostService and the GET endpoints   *)
(* that call them.  A text is the sequence of its characters; the stored   *)
(* titles and contents are one character long.                             *)
(***************************************************************************)
MaxQuery == 2
MaxPage  == 2
MaxSize  == 2

QueryChars == {"t", "C", " "}

RECURSIVE QueriesOfLength(_)
QueriesOfLength(n) ==
    IF n = 0 THEN {<<>>}
    ELSE {Append(q, ch) : q \in QueriesOfLength(n - 1), ch \in QueryChars}

\* the strings a client can send as q or search
Queries == UNION {QueriesOfLength(n) : n \in 0 .. MaxQuery}

Pages == 1 .. MaxPage
Sizes == 1 .. MaxSize

BadRequest             == "BadRequest"
RequestValidationError == "RequestValidationError"

\* the characters of a stored one-character text
Letters(text) == <<text>>

lower(ch) == IF ch = "C" THEN "c" ELSE IF ch = "T" THEN "t" ELSE ch

Lower(text) == [i \in DOMAIN text |-> lower(text[i])]

\* text LIKE '%pattern%' for a pattern without wildcards
Contains(text, pattern) ==
    \E i \in 0 .. (Len(text) - Len(pattern)) :
        SubSeq(text, i + 1, i + Len(pattern)) = pattern

\* column.ilike(f"%{query}%")
ilike(text, query) == Contains(Lower(Letters(text)), Lower(query))

RECURSIVE lstrip(_)
lstrip(s) == IF s # <<>> /\ Head(s) = " " THEN lstrip(Tail(s)) ELSE s

RECURSIVE rstrip(_)
rstrip(s) ==
    IF s # <<>> /\ s[Len(s)] = " " THEN rstrip(SubSeq(s, 1, Len(s) - 1)) ELSE s

\* str.strip()
strip(s) == rstrip(lstrip(s))

\* .offset(skip).limit(limit).all(): the pages the ordering can give.  The sort
\* keys (published_at, created_at) may be equal or NULL, so any of the
\* matching rows can come first.
Window(matches, skip, limit) ==
    LET n == Cardinality(matches)
        k == IF n <= skip THEN 0 ELSE IF n - skip < limit THEN n - skip ELSE limit
    IN  {page \in SUBSET matches : Cardinality(page) = k}

get_published_posts(skip, limit) ==
    Window({post \in posts : post.is_published}, skip, limit)

\* a featured listing that looks at the featured flag alone
get_featured_posts_any_status(limit) ==
    Window({post \in posts : post.is_featured}, 0, limit)

get_featured_posts(limit) ==
    Window({post \in posts : post.is_published /\ post.is_featured}, 0, limit)

get_posts_by_category(category_slug, skip, limit) ==
    Window({post \in posts :
              /\ post.is_published
              /\ \E c \in categories :
                   c.slug = category_slug /\ <<post.id, c.id>> \in post_categories},
           skip, limit)

get_posts_by_author(author_id, skip, limit) ==
    Window({post \in posts : post.author_id = author_id}, skip, limit)

search_posts(query, skip, limit) ==
    Window({post \in posts :
              /\ post.is_published
              /\ ilike(post.title, query) \/ ilike(post.content, query)},
           skip, limit)

count_published_posts == Cardinality({post \in posts : post.is_published})

\* an offset counted in pages from zero
offset_from_page(page, size) == page * size

\* skip = (page - 1) * size
offset(page, size) == (page - 1) * size

\* pages = (total + size - 1) // size
pages_of(total, size) == (total + size - 1) \div size

\* PostCreate inputs with the two flags as the client sets them
FlaggedInputs == [title : Titles, slug : Slugs, excerpt : Excerpts, content : Contents,
                  category_ids : {<<>>, <<2>>},
                  is_published : BOOLEAN, is_featured : BOOLEAN]

\* PostUpdate inputs that set one flag
FlagPatches ==
    {[f \in {"is_published"} |-> b] : b \in BOOLEAN} \cup
    {[f \in {"is_featured"} |-> b] : b \in BOOLEAN}

\* who sends a request: nobody the application knows (NullId) or a user
Requesters == {NullId, 1}

InitRead ==
    /\ Seeded
    /\ req = [p \in Procs |-> IdleReq]
    /\ svc = "read"
    /\ now = 0
    /\ out = NoCall

\* POST /posts
PostPost(inp, author_id) ==
    /\ svc = "read"
    /\ out = NoCall
    /\ nextId <= MaxIds
    /\ get(users, author_id) # {}
    /\ LET r == create_post(inp, author_id, nextId) IN
       /\ posts' = r[2]
       /\ post_categories' = r[3]
       /\ out' = [op |-> "create_post", r |-> r[1]]
    /\ nextId' = nextId + 1
    /\ UNCHANGED <<users, categories, req, svc, now>>

\* PUT /posts/{post_id} with a flag
PutFlag(post_id, patch) ==
    /\ svc = "read"
    /\ out = NoCall
    /\ post_id <= nextId
    /\ LET r == update_post(post_id, patch) IN
       /\ posts' = r[2]
       /\ post_categories' = r[3]
       /\ out' = [op |-> "update_post", r |-> r[1]]
    /\ UNCHANGED <<users, categories, nextId, req, svc, now>>

\* GET /posts.  An absent parameter and an empty or false one take the same
\* branch (if search: / elif category: / elif featured:), so "absent" is the
\* empty query, the empty slug and FALSE.
GetPosts(page, size, category, search, featured) ==
    /\ svc = "read"
    /\ out = NoCall
    /\ LET skip == offset(page, size)
           \* the handler's outcome after the service returned found
           Answer(fn, found, total) ==
               IF found = {}
               THEN [op |-> "get_posts", fn |-> fn, query |-> search, category |-> category,
                     page |-> page, size |-> size, skip |-> skip,
                     r |-> NotFound, items |-> found]
               ELSE [op |-> "get_posts", fn |-> fn, query |-> search, category |-> category,
                     page |-> page, size |-> size, skip |-> skip,
                     r |-> Ok, items |-> found,
                     total |-> total, pages |-> pages_of(total, size)]
           Refusal(e) ==
               [op |-> "get_posts", fn |-> "none", query |-> search, category |-> category,
                page |-> page, size |-> size, skip |-> skip, r |-> e, items |-> {}]
       IN  IF search # <<>>
           THEN IF Len(strip(search)) < 2
                THEN out' = Refusal(BadRequest)
                ELSE \E found \in search_posts(search, skip, size) :
                         out' = Answer("search_posts", found, Cardinality(found))
           ELSE IF category # ""
           THEN IF category_get_by_slug(category) = {}
                THEN out' = Refusal(NotFound)
                ELSE \E found \in get_posts_by_category(category, skip, size) :
                         out' = Answer("get_posts_by_category", found, Cardinality(found))
           ELSE IF featured
           THEN \E found \in get_featured_posts(size) :
                    out' = Answer("get_featured_posts", found, Cardinality(found))
           ELSE \E found \in get_published_posts(skip, size) :
                    out' = Answer("get_published_posts", found, count_published_posts)
    /\ UNCHANGED <<store, req, svc, now>>

\* GET /posts/featured
GetFeaturedPosts(limit) ==
    /\ svc = "read"
    /\ out = NoCall
    /\ \E found \in get_featured_posts(limit) :
           out' = [op |-> "get_featured_posts", fn |-> "get_featured_posts",
                   r |-> Ok, items |-> found]
    /\ UNCHANGED <<store, req, svc, now>>

\* GET /posts/search: q is declared Query(..., min_length=1)
SearchPosts(q, page, size) ==
    /\ svc = "read"
    /\ out = NoCall
    /\ IF Len(q) < 1
       THEN out' = [op |-> "search_posts", fn |-> "none", query |-> q,
                    r |-> RequestValidationError, items |-> {}]
       ELSE \E found \in search_posts(q, (page - 1) * size, size) :
                out' = [op |-> "search_posts", fn |-> "search_posts", query |-> q,
                        r |-> Ok, items |-> found]
    /\ UNCHANGED <<store, req, svc, now>>

\* GET /posts/author/{author_id}; the handler takes no credentials, so the
\* requester has no part in the answer
GetPostsByAuthor(requester, author_id, page, size) ==
    /\ svc = "read"
    /\ out = NoCall
    /\ \E found \in get_posts_by_author(author_id, (page - 1) * size, size) :
           out' = [op |-> "get_posts_by_author", fn |-> "get_posts_by_author",
                   requester |-> requester, author_id |-> author_id, r |-> Ok,
                   items |-> {post \in found : post.is_published}]
    /\ UNCHANGED <<store, req, svc, now>>

\* GET /users/{user_id}/posts; no credentials either, published_only is a
\* query parameter of the request
GetUserPosts(requester, user_id, page, size, published_only) ==
    /\ svc = "read"
    /\ out = NoCall
    /\ IF get(users, user_id) = {}
       THEN out' = [op |-> "get_user_posts", fn |-> "none",
                    requester |-> requester, author_id |-> user_id,
                    r |-> NotFound, items |-> {}]
       ELSE \E found \in get_posts_by_author(user_id, (page - 1) * size, size) :
                out' = [op |-> "get_user_posts", fn |-> "get_posts_by_author",
                        requester |-> requester, author_id |-> user_id, r |-> Ok,
                        items |-> IF published_only
                                  THEN {post \in found : post.is_published}
                                  ELSE found]
    /\ UNCHANGED <<store, req, svc, now>>

NextRead ==
    \/ Respond
    \/ \E inp \in FlaggedInputs, a \in Ids : PostPost(inp, a)
    \/ \E id \in Ids, patch \in FlagPatches : PutFlag(id, patch)
    \/ \E page \in Pages, size \in Sizes, category \in {""} \cup Slugs,
          search \in Queries, featured \in BOOLEAN :
           GetPosts(page, size, category, search, featured)
    \/ \E limit \in Sizes : GetFeaturedPosts(limit)
    \/ \E q \in Queries, page \in Pages, size \in Sizes : SearchPosts(q, page, size)
    \/ \E requester \in Requesters, a \in Ids, page \in Pages, size \in Sizes :
           GetPostsByAuthor(requester, a, page, size)
    \/ \E requester \in Requesters, id \in Ids, page \in Pages, size \in Sizes,
          published_only \in BOOLEAN :
           GetUserPosts(requester, id, page, size, published_only)

SpecRead == InitRead /\ [][NextRead]_vars

(***************************************************************************)
(* Popularity ranking: CategoryService.get_popular_categories over a store *)
(* seeded with two categories and two posts                                *)
(***************************************************************************)
SecondCategory == [id |-> 4, name |-> "Tech", slug |-> "two"]

SecondPost == [id |-> 5, title |-> "t", slug |-> "two", excerpt |-> "e", content |-> "c",
               author_id |-> 1, is_published |-> FALSE, is_featured |-> FALSE]

PopCategoryIds == {SeedCategory.id, SecondCategory.id}
PopPostIds     == {SeedPost.id, SecondPost.id}

\* category_ids over the two categories
PopIdLists == {<<>>, <<2>>, <<4>>, <<2, 4>>}

\* func.count(post_categories.c.post_id) of a category's group
post_count(category) ==
    Cardinality({pc \in post_categories : pc[2] = category.id})

\* the orders ORDER BY count DESC can give the rows: ties in any order
ByCountDesc(rows) ==
    {s \in [1 .. Cardinality(rows) -> rows] :
       /\ \A i, j \in DOMAIN s : i # j => s[i] # s[j]
       /\ \A i, j \in DOMAIN s : i < j => post_count(s[i]) >= post_count(s[j])}

\* LIMIT
Limited(s, limit) == SubSeq(s, 1, IF Len(s) < limit THEN Len(s) ELSE limit)

\* a ranking over an outer join, which keeps the categories without posts
get_popular_categories_outer(limit) ==
    {Limited(s, limit) : s \in ByCountDesc(categories)}

\* the inner join keeps the categories that have an association row
get_popular_categories(limit) ==
    {Limited(s, limit) :
        s \in ByCountDesc({c \in categories : \E pc \in post_categories : pc[2] = c.id})}

InitPop ==
    /\ users = {SeedUser}
    /\ categories = {SeedCategory, SecondCategory}
    /\ posts = {SeedPost, SecondPost}
    /\ post_categories = {<<SeedPost.id, SeedCategory.id>>}
    /\ nextId = 6
    /\ req = [p \in Procs |-> IdleReq]
    /\ svc = "popular"
    /\ now = 0
    /\ out = NoCall

\* PUT /posts/{post_id} with category_ids
PutPostCategories(post_id, ids) ==
    /\ svc = "popular"
    /\ out = NoCall
    /\ LET r == update_post(post_id, [f \in {"category_ids"} |-> ids]) IN
       /\ posts' = r[2]
       /\ post_categories' = r[3]
       /\ out' = [op |-> "update_post", r |-> r[1]]
    /\ UNCHANGED <<users, categories, nextId, req, svc, now>>

\* DELETE /posts/{post_id} and DELETE /categories/{category_id}, past get_or_404
DeleteRanked(table, id) ==
    /\ svc = "popular"
    /\ out = NoCall
    /\ LET r == remove(table, id) IN
       /\ r[1] # Return(None)
       /\ categories' = r[3]
       /\ posts' = r[4]
       /\ post_categories' = r[5]
       /\ out' = [op |-> "remove", table |-> table, id |-> id, r |-> r[1]]
    /\ UNCHANGED <<users, nextId, req, svc, now>>

\* GET /categories/popular/top
GetTopCategories(limit) ==
    /\ svc = "popular"
    /\ out = NoCall
    /\ \E ranked \in get_popular_categories(limit) :
           out' = [op |-> "get_popular_categories", limit |-> limit, r |-> Ok,
                   items |-> ranked]
    /\ UNCHANGED <<store, req, svc, now>>

NextPop ==
    \/ Respond
    \/ \E id \in PopPostIds, ids \in PopIdLists : PutPostCategories(id, ids)
    \/ \E id \in PopPostIds : DeleteRanked("posts", id)
    \/ \E id \in PopCategoryIds : DeleteRanked("categories", id)
    \/ \E limit \in Sizes : GetTopCategories(limit)

SpecPop == InitPop /\ [][NextPop]_vars

(***************************************************************************)
(* Properties of the store specification                                   *)
(***************************************************************************)
DoneWith(p, op) == req[p].op = op /\ req[p].pc = "done"

\* two finished calls of the same create handler, about the same key, whose
\* executions overlapped in time
Raced(p, q, op, key) ==
    /\ p # q
    /\ DoneWith(p, op) /\ DoneWith(q, op)
    /\ q \in req[p].conc
    /\ req[p].inp[key] = req[q].inp[key]

\* C1: of two concurrent create_user calls with the same username, one of which
\* succeeds, the other ends with Conflict, and one row holds the username.
C1_ConcurrentRegisterConflict ==
    \A p, q \in Procs :
        Raced(p, q, "create_user", "username") /\ req[p].res = Ok
        => /\ req[q].res = Conflict
           /\ Cardinality(user_get_by_username(req[p].inp.username)) = 1

\* What the code does guarantee for C1: never two successes, never two rows.
C1_NoDuplicateRow ==
    \A p, q \in Procs :
        Raced(p, q, "create_user", "username") /\ req[p].res = Ok
        => /\ req[q].res \in {Conflict, IntegrityError}
           /\ Cardinality(user_get_by_username(req[p].inp.username)) = 1

C1_Witness ==
    \E p, q \in Procs :
        /\ Raced(p, q, "create_user", "username")
        /\ req[p].res = Ok /\ req[p].late /\ req[q].late

\* C2: no two users share a username or an email, no two categories a name or a
\* slug, no two posts a slug.
C2_UniqueFields ==
    /\ \A u1, u2 \in users :
         u1 # u2 => u1.username # u2.username /\ u1.email # u2.email
    /\ \A c1, c2 \in categories :
         c1 # c2 => c1.name # c2.name /\ c1.slug # c2.slug
    /\ \A p1, p2 \in posts : p1 # p2 => p1.slug # p2.slug

\* a generic update of a user was refused by the store while two users exist
C2_Witness ==
    /\ Cardinality(users) = 2
    /\ \E p \in Procs : DoneWith(p, "update_user") /\ req[p].res = Conflict

\* C3: of concurrent create_post (create_category) calls with the same slug that
\* all passed the pre-check, one succeeds and each other one ends with Conflict;
\* one row holds the slug.
C3_ConcurrentSlugConflict ==
    \A p, q \in Procs :
        /\ \A op \in {"create_post", "create_category"} :
             Raced(p, q, op, "slug") /\ req[p].late /\ req[q].late /\ req[p].res = Ok
             => req[q].res = Conflict
        /\ Raced(p, q, "create_post", "slug") /\ req[p].res = Ok
             => Cardinality(post_get_by_slug(req[p].inp.slug)) = 1
        /\ Raced(p, q, "create_category", "slug") /\ req[p].res = Ok
             => Cardinality(category_get_by_slug(req[p].inp.slug)) = 1

\* C10: a create_user call whose pre-check finds the username or the email taken
\* ends with Conflict and leaves the users as they were; a call that succeeds
\* adds one row whose hashed_password verifies the password and which holds the
\* plaintext in no field.
C10_Step(p) ==
    LET inp == req[p].inp IN
    /\ At(p, "create_user", "check_username") /\ user_get_by_username(inp.username) # {}
       /\ req'[p].pc # req[p].pc
       => DoneWith(p, "create_user")' /\ req'[p].res = Conflict /\ users' = users
    /\ At(p, "create_user", "check_email") /\ user_get_by_email(inp.email) # {}
       /\ req'[p].pc # req[p].pc
       => DoneWith(p, "create_user")' /\ req'[p].res = Conflict /\ users' = users
    /\ At(p, "create_user", "commit") /\ req'[p].res = Ok
       => \E row \in users' :
            /\ users' \ users = {row}
            /\ row.username = inp.username /\ row.email = inp.email
            /\ verify_password(inp.password, row.hashed_password)
            /\ \A other \in Passwords \ {inp.password} :
                 ~verify_password(other, row.hashed_password)
            /\ "password" \notin DOMAIN row
            /\ \A f \in {"username", "email", "hashed_password"} : row[f] # inp.password

C10_RegisterConflictAndHash == [][\A p \in Procs : C10_Step(p)]_vars

\* one call was refused with Conflict and another one stored its row
C10_Witness ==
    \E p, q \in Procs :
        /\ DoneWith(p, "create_user") /\ req[p].res = Conflict
        /\ DoneWith(q, "create_user") /\ req[q].res = Ok
        /\ \E u \in users : u.username = req[q].inp.username /\ u.id > 2

(***************************************************************************)
(* Properties of the guard specification                                   *)
(***************************************************************************)
Called(op) == out.op = op

\* what a token is, independently of the code that checks it
Intact(token) == token.form = "signed"

SubjectUsers(token) ==
    IF token.sub = NoSub THEN {} ELSE {u \in users : u.username = token.sub}

\* the credential names an existing account and is signed and not yet expired
ValidCredential(c) ==
    /\ c # NoCredentials
    /\ Intact(c) /\ now < c.exp
    /\ SubjectUsers(c) # {}

\* the credential is missing, or not signed, or expired, or names no account
InvalidCredential(c) ==
    \/ c = NoCredentials
    \/ ~Intact(c) \/ c.exp < now
    \/ SubjectUsers(c) = {}

\* C4: verify_post_ownership fails NotFound for a missing post, Forbidden for a
\* user who is neither the author nor a superuser, and otherwise returns the
\* user it was given; the post update and delete endpoints change or remove a
\* post only for its author or a superuser.
C4_Function ==
    Called("verify_post_ownership") =>
        LET found == get(posts, out.post_id)
            user  == out.user
        IN  /\ found = {} => Raised(out.r, NotFound)
            /\ \A post \in found :
                 /\ user.id # post.author_id /\ ~user.is_superuser
                    => Raised(out.r, Forbidden)
                 /\ user.id = post.author_id \/ user.is_superuser
                    => out.r = Return(user)

C4_Endpoints ==
    /\ out'.op \in {"PUT /posts", "DELETE /posts"}
    /\ posts' # posts \/ post_categories' # post_categories
    => /\ "actor" \in DOMAIN out'
       /\ \E post \in get(posts, out'.post_id) :
            out'.actor.id = post.author_id \/ out'.actor.is_superuser

C4_Ownership == [](C4_Function) /\ [][C4_Endpoints]_vars

\* a superuser who is not the author is let through, unchanged
C4_Witness ==
    /\ Called("verify_post_ownership")
    /\ \E post \in get(posts, out.post_id) : post.author_id # out.user.id
    /\ out.user.is_superuser
    /\ out.r = Return(out.user)

\* C5: get_current_user fails Unauthorized on a missing or invalid credential,
\* fails InactiveAccount on a valid credential of a deactivated account, and
\* returns the user only for a valid credential of an active account.
C5_CurrentUser ==
    Called("get_current_user") =>
        LET c == out.credentials IN
        /\ InvalidCredential(c) => Raised(out.r, Unauthorized)
        /\ ValidCredential(c) /\ (\E u \in SubjectUsers(c) : ~u.is_active)
           => Raised(out.r, InactiveAccount)
        /\ Returned(out.r)
           => ValidCredential(c) /\ out.r.val \in SubjectUsers(c) /\ out.r.val.is_active

\* C6: verify_token returns the payload of an intact, unexpired token, and
\* returns invalid, without raising, for every other token.
C6_VerifyTokenNeverRaises ==
    Called("verify_token") =>
        LET token == out.token IN
        /\ Returned(out.r)
        /\ Intact(token) /\ now < token.exp
           => out.r = Return([sub |-> token.sub, exp |-> token.exp])
        /\ ~Intact(token) \/ token.exp < now => out.r = Return(None)

\* C7: issue_token(subject, ttl) yields a token that verify_token maps to the
\* subject at every time before issue time + ttl and to invalid afterwards, and
\* a token with another signature is invalid.
C7_TokenLifetime ==
    /\ Called("create_access_token")
       => /\ Returned(out.r)
          /\ out.r.val = [sub |-> out.sub, exp |-> now + out.ttl, form |-> "signed"]
    /\ Called("verify_token")
       => LET token == out.token IN
          /\ Intact(token) /\ now < token.exp
             => Returned(out.r) /\ out.r.val.sub = token.sub
          /\ Intact(token) /\ token.exp < now => out.r = Return(None)
          /\ token.form = "tampered" => out.r = Return(None)

\* C8: get_current_user_from_token returns invalid for a token that fails
\* verification, carries no subject or names no existing user, and otherwise
\* returns the user whose username is the subject.
C8_ResolvePrincipal ==
    Called("get_current_user_from_token") =>
        LET token == out.token IN
        /\ ~Intact(token) \/ token.exp < now \/ SubjectUsers(token) = {}
           => out.r = Return(None)
        /\ Intact(token) /\ now < token.exp /\ SubjectUsers(token) # {}
           => Returned(out.r) /\ out.r.val \in SubjectUsers(token)

\* C9: get_current_user_optional never raises; it returns absent when no
\* credential is supplied or the credential is invalid, expired, names no user
\* or names a deactivated account, and returns the user exactly when
\* get_current_user returns one.
C9_OptionalNeverFails ==
    Called("get_current_user_optional") =>
        LET c  == out.credentials
            cu == get_current_user(c, now)
        IN  /\ Returned(out.r)
            /\ c = NoCredentials => out.r = Return(None)
            /\ InvalidCredential(c) => out.r = Return(None)
            /\ ValidCredential(c) /\ (\E u \in SubjectUsers(c) : ~u.is_active)
               => out.r = Return(None)
            /\ Returned(cu) => out.r = cu
            /\ ~Returned(cu) => out.r = Return(None)

\* a signed, unexpired credential of a deactivated account yields absent
C9_Witness ==
    /\ Called("get_current_user_optional")
    /\ ValidCredential(out.credentials)
    /\ \E u \in SubjectUsers(out.credentials) : ~u.is_active
    /\ out.r = Return(None)

\* the accounts a login under the name is for
Named(username) == {u \in users : u.username = username}

Revoked(c) ==
    /\ c # NoCredentials
    /\ Intact(c) /\ now < c.exp
    /\ \E u \in SubjectUsers(c) : ~u.is_active

\* C25: get_current_user never returns an account whose active flag is false;
\* a signed, unexpired credential of a deactivated account is refused by
\* get_current_user and by the ownership dependency of the post endpoints, no
\* post request acts for an inactive account, and a login for a deactivated
\* account is refused without issuing a token.
C25_State ==
    /\ Called("get_current_user")
       => /\ Returned(out.r) => out.r.val \in users /\ out.r.val.is_active
          /\ Revoked(out.credentials) => Raised(out.r, Unauthorized)
    /\ \A c \in Tokens, post_id \in PostIds :
          Revoked(c) => \A dep \in OwnershipDependency(c, post_id) :
                            ~Returned(dep) /\ dep.exc \in HTTPExceptions
    /\ "actor" \in DOMAIN out => out.actor \in users /\ out.actor.is_active
    /\ Called("login") /\ (\E u \in Named(out.username) : ~u.is_active)
       => ~Returned(out.r) /\ out.r.exc \in HTTPExceptions

C25_Endpoints ==
    posts' # posts \/ post_categories' # post_categories
    => "actor" \in DOMAIN out' /\ out'.actor \in users /\ out'.actor.is_active

C25_DeactivationRevokes == []C25_State /\ [][C25_Endpoints]_vars

\* a login with the right password for a deactivated account is refused
C25_Witness ==
    /\ Called("login")
    /\ \E u \in Named(out.username) : ~u.is_active
    /\ out.r = Raise(InactiveAccount)

\* the step ends the call of task p
Ends(p) == req[p].pc # "done" /\ req'[p].pc = "done"

\* C28: a create_post or update_post call that ends in a failure has changed
\* neither the posts nor the associations: the step that ends it changes
\* nothing, and the only steps that change them are commits that succeed.
C28_Step ==
    /\ \A p \in Procs :
          /\ req[p].op \in {"create_post", "update_post"}
          /\ Ends(p) /\ req'[p].res # Ok
          => UNCHANGED <<posts, post_categories>>
    /\ posts' # posts \/ post_categories' # post_categories
       => \E p \in Procs :
            /\ req[p].op \in {"create_post", "update_post"}
            /\ req[p].pc = "commit" /\ Ends(p) /\ req'[p].res = Ok

C28_FailedPostCallChangesNothing == [][C28_Step]_vars

\* an update was refused at its commit while a post has a category
C28_Witness ==
    \E p \in Procs :
        /\ DoneWith(p, "update_post") /\ req[p].res = IntegrityError
        /\ post_categories # {}

(***************************************************************************)
(* Properties of the service specification                                 *)
(***************************************************************************)
\* the category ids a table of association rows gives a post
Associated(rows, post_id) == {pc[2] : pc \in {x \in rows : x[1] = post_id}}

\* the step is the call op, whose record out' holds
Calls(op) == out # out' /\ out'.op = op

\* C11: create_category fails with Conflict when its slug or its name is that of
\* an existing category, and then the categories are what they were: the
\* existing one unchanged in every field and no new one.
C11_Step ==
    Calls("create_category") =>
        LET inp == out'.inp IN
        /\ (\E c \in categories : c.slug = inp.slug \/ c.name = inp.name)
           => out'.r = Conflict
        /\ out'.r = Conflict => categories' = categories

C11_CreateCategoryConflict == [][C11_Step]_vars

\* a second category with the seeded slug was refused; the seeded one is there
C11_Witness ==
    /\ out.op = "create_category" /\ out.r = Conflict
    /\ out.inp.slug = SeedCategory.slug /\ out.inp.name # SeedCategory.name
    /\ categories = {SeedCategory}

\* C12: update_category fails NotFound when no category has the id, Conflict
\* when the supplied slug or name is that of a different category, and succeeds,
\* changing nothing, when the supplied values are the category's own.
C12_Step ==
    Calls("update_category") =>
        LET patch == out'.patch
            cur   == get(categories, out'.id)
        IN  /\ cur = {} => out'.r = NotFound /\ categories' = categories
            /\ cur # {}
               /\ (\E f \in DOMAIN patch : \E c \in categories :
                       c.id # out'.id /\ c[f] = patch[f])
               => out'.r = Conflict /\ categories' = categories
            /\ \A c \in cur :
                 (\A f \in DOMAIN patch : patch[f] = c[f])
                 => out'.r = Ok /\ categories' = categories

C12_UpdateCategory == [][C12_Step]_vars

\* a category was given its own slug while another category exists
C12_Witness ==
    /\ out.op = "update_category" /\ out.r = Ok
    /\ "slug" \in DOMAIN out.patch /\ out.was.slug = out.patch.slug
    /\ Cardinality(categories) = 2
    /\ out.was \in categories

\* C13: create_post fails Conflict if a post has the slug, ValidationError if a
\* supplied category id resolves to no category, and on success adds, in the
\* one step, one post of the given author together with exactly the supplied
\* associations.
C13_Step ==
    Calls("create_post") =>
        LET inp == out'.inp
            ids == Range(inp.category_ids)
        IN  /\ post_get_by_slug(inp.slug) # {} => out'.r = Conflict
            /\ post_get_by_slug(inp.slug) = {}
               /\ (\E c \in ids : get(categories, c) = {})
               => out'.r = ValidationError
            /\ out'.r # Ok => posts' = posts /\ post_categories' = post_categories
            /\ out'.r = Ok
               => \E row \in posts' :
                    /\ posts' = posts \cup {row} /\ row \notin posts
                    /\ row.slug = inp.slug
                    /\ row.author_id = out'.author_id
                    /\ get(users, row.author_id) # {}
                    /\ post_categories' = post_categories \cup {<<row.id, c>> : c \in ids}
                    /\ \A c \in ids : get(categories, c) # {}

C13_CreatePost == [][C13_Step]_vars

\* a post was created with a category: the row and its association are there
C13_Witness ==
    /\ out.op = "create_post" /\ out.r = Ok
    /\ out.inp.category_ids = <<2>>
    /\ \E row \in post_get_by_slug(out.inp.slug) :
         row.author_id = out.author_id /\ CategoriesOf(row.id) = {2}

\* C14: update_post fails NotFound for a missing post and Conflict for the slug
\* of a different post, accepts the post's own slug; supplied category ids
\* replace the association set (ValidationError if one does not resolve), and
\* without category ids the association set is unchanged.
C14_Step ==
    Calls("update_post") =>
        LET patch == out'.patch
            id    == out'.id
            cur   == get(posts, id)
        IN  /\ cur = {} => out'.r = NotFound
            /\ cur # {} /\ "slug" \in DOMAIN patch
               /\ (\E other \in posts : other.id # id /\ other.slug = patch.slug)
               => out'.r = Conflict
            /\ \A row \in cur :
                 "slug" \in DOMAIN patch /\ patch.slug = row.slug => out'.r = Ok
            /\ cur # {} /\ "category_ids" \in DOMAIN patch
               => /\ (\E c \in Range(patch.category_ids) : get(categories, c) = {})
                     => out'.r = ValidationError
                  /\ (\A c \in Range(patch.category_ids) : get(categories, c) # {})
                     /\ Cardinality(Range(patch.category_ids)) = Len(patch.category_ids)
                     => out'.r = Ok
                  /\ out'.r = Ok
                     => Associated(post_categories', id) = Range(patch.category_ids)
            /\ "category_ids" \notin DOMAIN patch => post_categories' = post_categories
            /\ out'.r # Ok => posts' = posts /\ post_categories' = post_categories
            /\ \A x \in post_categories' \ post_categories : x[1] = id
            /\ \A x \in post_categories \ post_categories' : x[1] = id

C14_UpdatePost == [][C14_Step]_vars

\* a post that had a category was updated with the empty list and has none
C14_Witness ==
    /\ out.op = "update_post" /\ out.r = Ok
    /\ "category_ids" \in DOMAIN out.patch /\ out.patch.category_ids = <<>>
    /\ out.had = {2}
    /\ get(posts, out.id) # {} /\ CategoriesOf(out.id) = {}

\* the fields of a PostUpdate that are columns of the post
ColumnsOf(patch) == DOMAIN patch \ {"category_ids"}

\* C15: a successful update (BaseService.update, update_post) leaves every
\* field absent from the input as it was and gives every field present in the
\* input the input's value, null included; nothing else in the table changes.
C15_Step ==
    /\ Calls("update_post") /\ out'.r = Ok
       => \E old \in get(posts, out'.id) : \E new \in get(posts', out'.id) :
            /\ \A f \in DOMAIN old :
                 new[f] = IF f \in ColumnsOf(out'.patch) THEN out'.patch[f] ELSE old[f]
            /\ posts' \ {new} = posts \ {old}
            /\ "category_ids" \notin DOMAIN out'.patch
               => Associated(post_categories', out'.id) = Associated(post_categories, out'.id)
    /\ Calls("update_user") /\ out'.r = Ok
       => \E old \in get(users, out'.id) : \E new \in get(users', out'.id) :
            /\ \A f \in DOMAIN old :
                 new[f] = IF f \in DOMAIN out'.patch THEN out'.patch[f] ELSE old[f]
            /\ users' \ {new} = users \ {old}

C15_PartialUpdate == [][C15_Step]_vars

\* a post's excerpt was set and is now null; its other fields are as before
C15_Witness ==
    /\ out.op = "update_post" /\ out.r = Ok
    /\ out.patch = [f \in {"excerpt"} |-> Null]
    /\ out.was.excerpt = "e"
    /\ \E row \in get(posts, out.id) :
         row = [out.was EXCEPT !.excerpt = Null]

\* C19: every association row refers to a post that exists and to a category
\* that exists.
C19_NoOrphanAssociations ==
    \A pc \in post_categories : get(posts, pc[1]) # {} /\ get(categories, pc[2]) # {}

\* a category that posts were associated with was removed, the posts remain
C19_Witness ==
    /\ out.op = "remove_category" /\ out.r = Ok
    /\ out.had # {}
    /\ \A post_id \in out.had : get(posts, post_id) # {}

\* C20: every post has exactly one author, and the author is a user.
C20_PostHasAuthor ==
    \A post \in posts :
        /\ post.author_id # NullId
        /\ Cardinality(get(users, post.author_id)) = 1

\* the removal of a user who has authored a post was attempted
C20_Witness ==
    /\ out.op = "remove_user"
    /\ \E post \in posts : post.author_id = out.id

\* C21: delete_user on an existing user succeeds and removes the user together
\* with every post the user authored.
C21_Step ==
    Calls("remove_user") /\ get(users, out'.id) # {}
    => /\ out'.r = Ok
       /\ get(users', out'.id) = {}
       /\ \A post \in posts' : post.author_id # out'.id

C21_DeleteUserCascades == [][C21_Step]_vars

\* the rows of a table
TableRows(table, us, cs, ps) ==
    IF table = "users" THEN us ELSE IF table = "categories" THEN cs ELSE ps

\* C22: remove of an id that is not stored returns absent, raises nothing and
\* changes nothing; a remove that returns leaves the id not stored, so that
\* a second remove of the id is of the first kind.
C22_Step ==
    Calls("remove") =>
        LET before == TableRows(out'.table, users, categories, posts)
            after  == TableRows(out'.table, users', categories', posts')
        IN  /\ get(before, out'.id) = {}
               => /\ out'.r = Return(None)
                  /\ UNCHANGED <<users, categories, posts, post_categories>>
            /\ Returned(out'.r) => get(after, out'.id) = {}
            /\ Returned(out'.r) /\ get(before, out'.id) # {}
               => out'.r.val \in before

C22_RemoveIdempotent == [][C22_Step]_vars

\* the seeded category has been removed, and removing it again returned absent
C22_Witness ==
    /\ out.op = "remove" /\ out.table = "categories" /\ out.id = SeedCategory.id
    /\ out.r = Return(None)
    /\ get(categories, SeedCategory.id) = {}

\* C26: no step changes the author of a stored post, whatever an update_post
\* input supplies; the author is the one create_post was called with.
C26_Step ==
    /\ \A old \in posts : \A new \in get(posts', old.id) :
           new.author_id = old.author_id
    /\ Calls("create_post") /\ out'.r = Ok
       => \A new \in posts' \ posts : new.author_id = out'.author_id

C26_AuthorFixed == [][C26_Step]_vars

\* an update whose body named another author went through; the author stayed
C26_Witness ==
    /\ out.op = "update_post" /\ out.r = Ok
    /\ "body" \in DOMAIN out
    /\ out.body.author_id # out.was.author_id
    /\ "title" \in DOMAIN out.patch
    /\ \E row \in get(posts, out.id) :
          row.title = out.patch.title /\ row.author_id = out.was.author_id

\* C27: create_post and update_post refuse a list of category ids exactly when
\* one of the ids is not that of a stored category; a list whose ids all
\* resolve, one named twice included, is accepted and the post is associated
\* with the set of categories named.
C27_Step ==
    /\ Calls("create_post") /\ post_get_by_slug(out'.inp.slug) = {}
       => LET ids == Range(out'.inp.category_ids) IN
          IF \A c \in ids : get(categories, c) # {}
          THEN /\ out'.r = Ok
               /\ \A new \in posts' \ posts : Associated(post_categories', new.id) = ids
          ELSE out'.r = ValidationError
    /\ Calls("update_post") /\ get(posts, out'.id) # {}
       /\ DOMAIN out'.patch = {"category_ids"}
       => LET ids == Range(out'.patch.category_ids) IN
          IF \A c \in ids : get(categories, c) # {}
          THEN /\ out'.r = Ok
               /\ Associated(post_categories', out'.id) = ids
          ELSE out'.r = ValidationError

C27_CategoryValidationExact == [][C27_Step]_vars

(***************************************************************************)
(* Properties of the read specification                                    *)
(***************************************************************************)
\* C16: every post that get_featured_posts returns, through GET /posts/featured
\* or through GET /posts?featured=true, is published and featured; a featured
\* post that is not published is never among them.
C16_FeaturedArePublished ==
    out.op \in {"get_featured_posts", "get_posts"} /\ out.fn = "get_featured_posts"
    => \A post \in out.items : post.is_published /\ post.is_featured

\* the featured listing answered with a post while a featured draft is stored
C16_Witness ==
    /\ out.op = "get_featured_posts"
    /\ out.items # {}
    /\ \E post \in posts : post.is_featured /\ ~post.is_published

\* C17: on every path that lists an author's posts, a requester who is not the
\* author is answered with published posts only.
C17_AuthorListingPublishedOnly ==
    out.op \in {"get_posts_by_author", "get_user_posts"}
    /\ out.requester # out.author_id
    => \A post \in out.items : post.is_published

\* C18: search_posts is only ever called with a query of two characters or more.
C18_SearchQueryAtLeastTwo ==
    out.op \in {"get_posts", "search_posts"} /\ out.fn = "search_posts"
    => Len(out.query) >= 2

\* GET /posts never hands search_posts a query whose stripped length is below two
C18_GetPostsRejectsShort ==
    out.op = "get_posts" /\ out.fn = "search_posts" => Len(strip(out.query)) >= 2

MaxTotal == 23

\* the published posts a GET /posts request selects with its filter
Selected(fn, query, category) ==
    {post \in posts :
       /\ post.is_published
       /\ fn = "search_posts" => ilike(post.title, query) \/ ilike(post.content, query)
       /\ fn = "get_posts_by_category"
          => \E c \in categories :
                c.slug = category /\ <<post.id, c.id>> \in post_categories
       /\ fn = "get_featured_posts" => post.is_featured}

\* n is the ceiling of total / size
IsCeiling(n, total, size) == n * size >= total /\ (n - 1) * size < total

\* C23: the offset GET /posts passes to the service is (page - 1) * size; the
\* page count it reports is the ceiling of total / size, 3 for 23 at 10; and
\* a list operation called with an offset at or beyond the number of matching
\* rows returns no row.
C23_Pagination ==
    /\ out = NoCall
       => /\ \A total \in 0 .. MaxTotal : \A size \in 1 .. MaxTotal :
                 IsCeiling(pages_of(total, size), total, size)
          /\ pages_of(23, 10) = 3
    /\ out.op = "get_posts" /\ out.fn # "none"
       => /\ out.skip = out.page * out.size - out.size
          /\ out.r = Ok => IsCeiling(out.pages, out.total, out.size)
          /\ out.fn # "get_featured_posts"
             /\ out.skip >= Cardinality(Selected(out.fn, out.query, out.category))
             => out.items = {}

\* page 2 at size 1 of a single published post: the service returned no row
C23_Witness ==
    /\ out.op = "get_posts" /\ out.fn = "get_published_posts"
    /\ out.page = 2 /\ out.size = 1 /\ out.skip = 1
    /\ count_published_posts = 1
    /\ out.items = {}

\* C30: in every filter mode of GET /posts the reported total is the number of
\* all published posts the filter selects, whatever the page and the size, and
\* the reported pages is the ceiling of total / size.
C30_TotalCountsAllMatches ==
    out.op = "get_posts" /\ out.fn # "none" /\ out.r = Ok
    => /\ out.total = Cardinality(Selected(out.fn, out.query, out.category))
       /\ IsCeiling(out.pages, out.total, out.size)

====
